---- MODULE Spec2Model ----
(***************************************************************************)
(* jsonstore: a schema-less document store with a flattened secondary      *)
(* index.  Two EntryManager backends are in the repository:                *)
(*   "shove"  : branches/0.3_shove/jsonstore/store.py (a Shove mapping as  *)
(*              primary store, an SQLite table `flat` as index);           *)
(*   "sqlite" : branches/0.3/jsonstore/backends/sqlite.py (tables `store`  *)
(*              and `flat` in one SQLite database).                        *)
(* The variable `backend` selects, at construction, which one a behaviour  *)
(* runs.                                                                   *)
(*                                                                         *)
(* Python values are tagged tuples: <<"int", n>>, <<"str", tokens>>,       *)
(* <<"datetime", sec, usec>>, <<"list", seq>>, <<"dict", function>>,       *)
(* <<"operator", name, params>>, <<"None">>.  A string is the sequence of  *)
(* its tokens, so that join and replace are computed, not assumed.         *)
(***************************************************************************)
EXTENDS Integers, Sequences, FiniteSets, Bags, TLC

VARIABLES backend, store, flat, seq, generated, last,
          inflight, conns, handles

vars == <<backend, store, flat, seq, generated, last, inflight, conns, handles>>

\* the calls workers are in the middle of, and the connection tables: they
\* change only in the step-wise and the connection specifications
aside == <<inflight, conns, handles>>

----------------------------------------------------------------------------
(* Python values *)

None == <<"None">>
VInt(n) == <<"int", n>>
VStr(tokens) == <<"str", tokens>>
VDatetime(sec, usec) == <<"datetime", sec, usec>>
VList(items) == <<"list", items>>
VDict(f) == <<"dict", f>>
VOperator(name, params) == <<"operator", name, params>>

IsDict(v) == v[1] = "dict"
IsDatetime(v) == v[1] = "datetime"

ID_KEY == <<"__id__">>
UPDATED_KEY == <<"__updated__">>

(* dict helpers: d is a VDict *)
Has(d, k) == k \in DOMAIN d[2]
Get(d, k) == d[2][k]
Put(d, k, v) == VDict([x \in (DOMAIN d[2]) \cup {k} |-> IF x = k THEN v ELSE d[2][x]])
Pop(d, k) == VDict([x \in (DOMAIN d[2]) \ {k} |-> d[2][x]])
setdefault(d, k, v) == IF Has(d, k) THEN d ELSE Put(d, k, v)

----------------------------------------------------------------------------
(* Bounds and inputs *)

\* cap on the number of rows of the shove index (it grows without limit
\* when an id is created again)
MaxRows == 6
\* largest integer id of the sqlite backend
MaxId == 2

Digit == <<"0", "1", "2", "3", "4", "5", "6", "7", "8", "9">>

\* datetime.utcnow() and caller-supplied datetime objects
Datetimes == {VDatetime(2, 5)}

\* the '%Y-%m-%dT%H:%M:%SZ' text of second sec
IsoTokens(sec) == <<"2000-01-01T00:00:0", Digit[sec + 1], "Z">>

\* caller-supplied __updated__ strings: one well formed, one malformed
GoodUpdated == VStr(IsoTokens(1))
BadUpdated == VStr(<<"yesterday">>)

D1 == VDict((<<"a">> :> VInt(1)) @@ (<<"b">> :> VInt(2)))
D2 == VDict((<<"a">> :> VInt(2))
            @@ (<<"c", ".", "d">> :> VDict(<<"e">> :> VStr(<<"s">>))))
D3 == VDict(<<"a">> :> VList(<<VInt(1), VInt(2)>>))
D4 == VDict(<<"t">> :> VDatetime(1, 0))

D5 == VDict(<<"a">> :> VList(<<VInt(1), VInt(1)>>))

Bodies == {D1, D2, D3, D4, D5}

ClientTokens == {VStr(<<"x">>)}
Uuids == {VStr(<<"u1">>), VStr(<<"u2">>)}
ShoveIds == ClientTokens \cup Uuids
SqliteIds == {VInt(i) : i \in 1..MaxId}
Ids == IF backend = "shove" THEN ShoveIds ELSE SqliteIds

----------------------------------------------------------------------------
(* strings *)

RECURSIVE replace_dot(_)
replace_dot(name) ==
    IF name = <<>> THEN <<>>
    ELSE (IF Head(name) = "." THEN <<"%", "2", "E">> ELSE <<Head(name)>>)
         \o replace_dot(Tail(name))

\* shove: name.replace('.', '%2E')
escape(name) == replace_dot(name)

RECURSIVE join(_)
\* '.'.join(keys)
join(keys) ==
    IF keys = <<>> THEN <<>>
    ELSE IF Len(keys) = 1 THEN keys[1]
    ELSE keys[1] \o <<".">> \o join(Tail(keys))

\* obj.isoformat().split('.', 1)[0] + 'Z'; anything without isoformat is
\* returned unchanged
datetime_to_iso(obj) ==
    IF IsDatetime(obj) THEN VStr(IsoTokens(obj[2])) ELSE obj

----------------------------------------------------------------------------
(* shove backend: flatten and the index *)

RECURSIVE flatten(_, _)
RECURSIVE flatten_items(_, _)
RECURSIVE flatten_dict(_, _, _)

\* the bag of (path, leaf) pairs of obj; keys is the list of escaped keys
\* leading to obj
flatten(obj, keys) ==
    CASE obj[1] = "list" -> flatten_items(obj[2], keys)
      [] obj[1] = "dict" -> flatten_dict(obj[2], DOMAIN obj[2], keys)
      [] obj[1] = "datetime" -> SetToBag({<<join(keys), datetime_to_iso(obj)>>})
      [] obj[1] = "operator" ->
            SetToBag({<<join(keys),
                        VOperator(obj[2], [i \in DOMAIN obj[3] |->
                                              datetime_to_iso(obj[3][i])])>>})
      [] OTHER -> SetToBag({<<join(keys), obj>>})

\* for item in obj: for pair in flatten(item, keys): yield pair
flatten_items(items, keys) ==
    IF items = <<>> THEN EmptyBag
    ELSE flatten(Head(items), keys) (+) flatten_items(Tail(items), keys)

\* for k, v in obj.items(): for pair in flatten(v, keys + [escape(k)])
flatten_dict(f, ks, keys) ==
    IF ks = {} THEN EmptyBag
    ELSE LET k == CHOOSE x \in ks : TRUE
         IN flatten(f[k], Append(keys, escape(k)))
            (+) flatten_dict(f, ks \ {k}, keys)

\* the rows (id, position, leaf) a bag of pairs gives for id
RowsOf(id, pairs) ==
    [r \in {<<id, p[1], p[2]>> : p \in BagToSet(pairs)} |-> pairs[<<r[2], r[3]>>]]

\* [(entry['__id__'], k, v) for (k, v) in flatten(entry) if k != '__id__']
index_rows(entry) ==
    LET pairs == flatten(entry, <<>>)
        kept == [p \in {q \in BagToSet(pairs) : q[1] # ID_KEY} |-> pairs[p]]
    IN RowsOf(Get(entry, ID_KEY), kept)

\* INSERT INTO flat (id, position, leaf) VALUES (?, ?, ?), for every row
index_entry(f, entry) == f (+) index_rows(entry)

\* the DELETE left out
delete_rows_omitted(f, key) == f

\* DELETE FROM flat WHERE id=?
delete_rows(f, key) == [r \in {x \in DOMAIN f : x[1] # key} |-> f[r]]

\* the rows of one id
RowsFor(f, id) == [r \in {x \in DOMAIN f : x[1] = id} |-> f[r]]

----------------------------------------------------------------------------
(* operators and conditions *)

\* time.strptime(updated, '%Y-%m-%dT%H:%M:%SZ') succeeds
strptime_ok(updated) ==
    updated[1] = "str" /\ \E sec \in 0..9 : updated[2] = IsoTokens(sec)

\* datetime(*(time.strptime(updated, '%Y-%m-%dT%H:%M:%SZ')[0:6]))
strptime(updated) ==
    VDatetime(CHOOSE sec \in 0..9 : updated[2] = IsoTokens(sec), 0)

\* the condition "leaf <cmp> ?" an operator renders to
OperatorHolds(op, leaf) ==
    CASE op[2] = "Equal" -> leaf = op[3][1]
      [] op[2] = "NotEqual" -> leaf # op[3][1]
      [] OTHER -> FALSE

\* if not isinstance(leaf, Operator): leaf = Equal(leaf)
as_operator(leaf) ==
    IF leaf[1] = "operator" THEN leaf ELSE VOperator("Equal", <<leaf>>)

\* (position=? AND leaf <cmp> ?)
pair_matches(pair, row) ==
    row[2] = pair[1] /\ OperatorHolds(as_operator(pair[2]), row[3])

----------------------------------------------------------------------------
(* shove backend: EntryManager *)

Assign(s, k, v) == [x \in (DOMAIN s) \cup {k} |-> IF x = k THEN v ELSE s[x]]
Remove(s, k) == [x \in (DOMAIN s) \ {k} |-> s[x]]

Outcome(o, s, f, r) == [outcome |-> o, store |-> s, flat |-> f, ret |-> r]

\* the store write left out
store_entry_skipped(s, id_, entry) == s

\* self.store[id_] = entry
store_entry(s, id_, entry) == Assign(s, id_, entry)

\* EntryManager.create, on primary store s and index f; uuid and now are
\* the values of str(uuid4()) and datetime.utcnow()
create_result(s, f, entry0, uuid, now) ==
    LET e1 == setdefault(entry0, ID_KEY, uuid)
        entry == setdefault(e1, UPDATED_KEY, now)
        id_ == Get(entry, ID_KEY)
        updated == Get(entry, UPDATED_KEY)
    IN IF ~IsDatetime(updated) /\ ~strptime_ok(updated)
       THEN Outcome("ValueError", s, f, None)
       ELSE Outcome("ok", store_entry(s, id_, entry), index_entry(f, entry), entry)

\* EntryManager.delete
delete_result(s, f, key) ==
    IF key \notin DOMAIN s
    THEN Outcome("KeyError", s, f, None)
    ELSE Outcome("ok", Remove(s, key), delete_rows(f, key), None)

\* EntryManager.update
update_result(s, f, entry0, uuid, now) ==
    IF ~Has(entry0, ID_KEY)
    THEN Outcome("KeyError", s, f, None)
    ELSE LET d == delete_result(s, f, Get(entry0, ID_KEY))
         IN IF d.outcome # "ok" THEN d
            ELSE create_result(d.store, d.flat, entry0, uuid, now)

\* HAVING without the "if leaves:" guard
having_unguarded(n, leaves) == n = leaves

\* no HAVING clause: the conditions joined by OR decide alone
having_omitted(n, leaves) == TRUE

\* if leaves: GROUP BY id HAVING COUNT(*)=leaves, for an id with n rows
\* kept by the WHERE clause
having(n, leaves) == leaves = 0 \/ n = leaves

\* the ids the query of EntryManager.search selects from index f;
\* obj is the search key, with __id__ when the caller gave one
select_ids(f, obj) ==
    LET id_ == IF Has(obj, ID_KEY) THEN Get(obj, ID_KEY) ELSE None
        pairs == flatten(Pop(obj, ID_KEY), <<>>)
        leaves == BagCardinality(pairs)
        hit(r) == /\ (id_ = None \/ r[1] = id_)
                  /\ (leaves = 0 \/ \E p \in BagToSet(pairs) : pair_matches(p, r))
        rows == [r \in {x \in DOMAIN f : hit(x)} |-> f[r]]
    IN {id \in {r[1] : r \in DOMAIN rows} :
           having(BagCardinality(RowsFor(rows, id)), leaves)}

\* EntryManager.search with size=None, offset=0, count=False:
\* [self.store[row[0]] for row in curs]
search_result(s, f, obj) ==
    LET ids == select_ids(f, obj)
    IN IF ids \subseteq DOMAIN s
       THEN [outcome |-> "ok", ids |-> SetToBag(ids)]
       ELSE [outcome |-> "KeyError", ids |-> EmptyBag]

\* a reindex whose loop indexes nothing
reindex_rows_none(s, ks) == EmptyBag

RECURSIVE reindex_rows(_, _)
\* for entry in self.store: self.index_entry(self.store[entry])
reindex_rows(s, ks) ==
    IF ks = {} THEN EmptyBag
    ELSE LET k == CHOOSE x \in ks : TRUE
         IN index_entry(reindex_rows(s, ks \ {k}), s[k])

\* EntryManager.reindex: DELETE FROM flat, then index every stored entry
reindex_result(s) == reindex_rows(s, DOMAIN s)

----------------------------------------------------------------------------
(* sqlite backend: JSON text, flatten, EntryManager *)

RECURSIVE serializable(_)
\* simplejson.dumps raises TypeError on a datetime
serializable(v) ==
    CASE v[1] = "list" -> \A i \in DOMAIN v[2] : serializable(v[2][i])
      [] v[1] = "dict" -> \A k \in DOMAIN v[2] : serializable(v[2][k])
      [] v[1] \in {"datetime", "operator"} -> FALSE
      [] OTHER -> TRUE

RECURSIVE dumps(_)

\* a dumps that writes numbers as strings
dumps_stringly(v) ==
    CASE v[1] = "list" -> <<"array", [i \in DOMAIN v[2] |-> dumps(v[2][i])]>>
      [] v[1] = "dict" -> <<"object", [k \in DOMAIN v[2] |-> dumps(v[2][k])]>>
      [] v[1] = "int" -> <<"string", <<Digit[v[2] + 1]>>>>
      [] v[1] = "str" -> <<"string", v[2]>>
      [] OTHER -> <<"null">>

\* simplejson.dumps: the JSON document of a value
dumps(v) ==
    CASE v[1] = "list" -> <<"array", [i \in DOMAIN v[2] |-> dumps(v[2][i])]>>
      [] v[1] = "dict" -> <<"object", [k \in DOMAIN v[2] |-> dumps(v[2][k])]>>
      [] v[1] = "int" -> <<"number", v[2]>>
      [] v[1] = "str" -> <<"string", v[2]>>
      [] OTHER -> <<"null">>

RECURSIVE loads(_)
\* simplejson.loads: the value of a JSON document
loads(j) ==
    CASE j[1] = "array" -> VList([i \in DOMAIN j[2] |-> loads(j[2][i])])
      [] j[1] = "object" -> VDict([k \in DOMAIN j[2] |-> loads(j[2][k])])
      [] j[1] = "number" -> VInt(j[2])
      [] j[1] = "string" -> VStr(j[2])
      [] OTHER -> None

RECURSIVE sqlite_flatten(_, _)
RECURSIVE sqlite_flatten_items(_, _)
RECURSIVE sqlite_flatten_dict(_, _, _)

\* backends/sqlite.py flatten: only int, float, long and basestring are
\* leaves, keys are not escaped
sqlite_flatten(obj, keys) ==
    CASE obj[1] \in {"int", "str"} -> SetToBag({<<join(keys), obj>>})
      [] obj[1] = "list" -> sqlite_flatten_items(obj[2], keys)
      [] obj[1] = "dict" -> sqlite_flatten_dict(obj[2], DOMAIN obj[2], keys)
      [] OTHER -> EmptyBag

sqlite_flatten_items(items, keys) ==
    IF items = <<>> THEN EmptyBag
    ELSE sqlite_flatten(Head(items), keys)
         (+) sqlite_flatten_items(Tail(items), keys)

sqlite_flatten_dict(f, ks, keys) ==
    IF ks = {} THEN EmptyBag
    ELSE LET k == CHOOSE x \in ks : TRUE
         IN sqlite_flatten(f[k], Append(keys, k))
            (+) sqlite_flatten_dict(f, ks \ {k}, keys)

\* the largest id of the table store (0 when it is empty)
MaxRowid(s) ==
    IF DOMAIN s = {} THEN 0
    ELSE CHOOSE n \in {i[2] : i \in DOMAIN s} : \A i \in DOMAIN s : i[2] <= n

\* id INTEGER PRIMARY KEY without AUTOINCREMENT: one more than the largest
\* id in the table now
rowid_without_sequence(s, q) == MaxRowid(s) + 1

\* id INTEGER PRIMARY KEY AUTOINCREMENT: the id an INSERT with id NULL gets;
\* q is sqlite_sequence's value, the largest id the table ever held
autoincrement(s, q) == (IF MaxRowid(s) > q THEN MaxRowid(s) ELSE q) + 1

\* sqlite_sequence after a row with id n was inserted
sequence_after(q, n) == IF n > q THEN n ELSE q

\* EntryManager.get_entry
get_entry_result(s, key) ==
    IF key \notin DOMAIN s
    THEN [outcome |-> "TypeError", ret |-> None]
    ELSE [outcome |-> "ok",
          ret |-> Put(Put(loads(s[key].entry), ID_KEY, key),
                      UPDATED_KEY, datetime_to_iso(s[key].updated))]

SqlOutcome(o, s, f, q, r) ==
    [outcome |-> o, store |-> s, flat |-> f, seq |-> q, ret |-> r]

\* EntryManager.create_entry on tables s (store) and f (flat)
create_entry_result(s, f, q, entry0, now) ==
    LET id0 == IF Has(entry0, ID_KEY) THEN Get(entry0, ID_KEY) ELSE None
        upd0 == IF Has(entry0, UPDATED_KEY) THEN Get(entry0, UPDATED_KEY) ELSE now
        body == Pop(Pop(entry0, ID_KEY), UPDATED_KEY)
    IN IF ~IsDatetime(upd0) /\ ~strptime_ok(upd0)
       THEN SqlOutcome("ValueError", s, f, q, None)
       ELSE IF ~serializable(body)
       THEN SqlOutcome("TypeError", s, f, q, None)
       ELSE IF id0 \in DOMAIN s
       THEN SqlOutcome("IntegrityError", s, f, q, None)
       ELSE
         LET updated == IF IsDatetime(upd0) THEN upd0 ELSE strptime(upd0)
             id_ == IF id0 = None THEN VInt(autoincrement(s, q)) ELSE id0
             s2 == Assign(s, id_, [entry |-> dumps(body), updated |-> updated])
             entry == Put(Put(body, ID_KEY, id_),
                          UPDATED_KEY, datetime_to_iso(updated))
             f2 == f (+) RowsOf(id_, sqlite_flatten(entry, <<>>))
         IN SqlOutcome("ok", s2, f2, sequence_after(q, id_[2]),
                       get_entry_result(s2, id_).ret)

\* EntryManager.delete_entry
delete_entry_result(s, f, q, key) ==
    SqlOutcome("ok", Remove(s, key), delete_rows(f, key), q, None)

\* EntryManager.update_entry
update_entry_result(s, f, q, entry0, now) ==
    IF ~Has(entry0, ID_KEY)
    THEN SqlOutcome("KeyError", s, f, q, None)
    ELSE LET d == delete_entry_result(s, f, q, Get(entry0, ID_KEY))
         IN create_entry_result(d.store, d.flat, d.seq, entry0, now)

\* leaf LIKE ? for a pattern without wildcards
like_match(leaf, pattern) == leaf = pattern

\* the rows of store LEFT JOIN flat ON store.id=flat.id that the WHERE
\* clause keeps, as a bag of <<id, position, leaf>> (position None for a
\* store row without flat rows)
joined_rows(s, f, pairs, mode) ==
    LET joined == [r \in {x \in DOMAIN f : x[1] \in DOMAIN s} |-> f[r]]
                  (+) SetToBag({<<id, None, None>> :
                                 id \in {i \in DOMAIN s : RowsFor(f, i) = EmptyBag}})
        hit(r) == \/ BagCardinality(pairs) = 0
                  \/ \E p \in BagToSet(pairs) :
                        /\ r[2] = p[1]
                        /\ IF mode = 0 THEN r[3] = p[2] ELSE like_match(r[3], p[2])
    IN [r \in {x \in DOMAIN joined : hit(x)} |-> joined[r]]

\* backends/sqlite.py EntryManager.search with size=None, offset=0: the
\* bag of the ids of the rows returned
sqlite_search_result(s, f, obj, mode) ==
    LET pairs == sqlite_flatten(obj, <<>>)
        count == BagCardinality(pairs)
        rows == joined_rows(s, f, pairs, mode)
        ids == {r[1] : r \in DOMAIN rows}
    IN IF count > 0 /\ mode \notin {0, 1}
       THEN [outcome |-> "Exception", ids |-> EmptyBag]
       ELSE IF count = 0
       THEN [outcome |-> "ok",
             ids |-> [i \in ids |-> BagCardinality(RowsFor(rows, i))]]
       ELSE [outcome |-> "ok",
             ids |-> SetToBag({i \in ids :
                                 BagCardinality(RowsFor(rows, i)) = count})]

----------------------------------------------------------------------------
(* the order and the pages of a result *)

\* the instant an __updated__ value stands for, as <<second, microsecond>>
instant(updated) ==
    IF IsDatetime(updated) THEN <<updated[2], updated[3]>>
    ELSE <<strptime(updated)[2], 0>>

Later(u, v) == u[1] > v[1] \/ (u[1] = v[1] /\ u[2] > v[2])

RECURSIVE any_order(_)
\* a query without ORDER BY (the clause is commented out in the shove
\* search): the rows of a bag, in any order
any_order(rows) ==
    IF BagToSet(rows) = {} THEN {<<>>}
    ELSE UNION {{<<r>> \o rest : rest \in any_order(rows (-) SetToBag({r}))} :
                  r \in BagToSet(rows)}

RECURSIVE order_by_updated(_, _)
\* ORDER BY store.updated DESC: the ids of a bag of rows of table s, latest
\* first, rows with equal timestamps in any order
order_by_updated(rows, s) ==
    IF BagToSet(rows) = {} THEN {<<>>}
    ELSE LET first == {r \in BagToSet(rows) :
                         \A q \in BagToSet(rows) :
                             ~Later(instant(s[q].updated), instant(s[r].updated))}
         IN UNION {{<<r>> \o rest :
                      rest \in order_by_updated(rows (-) SetToBag({r}), s)} :
                     r \in first}

\* if size is not None: LIMIT size; if offset: OFFSET offset.  SQLite takes
\* OFFSET only after LIMIT
limit_offset(rows, size, offset) ==
    IF size = None
    THEN IF offset = 0 THEN [outcome |-> "ok", rows |-> rows]
         ELSE [outcome |-> "OperationalError", rows |-> <<>>]
    ELSE [outcome |-> "ok",
          rows |-> SubSeq(rows, offset + 1,
                          IF offset + size[2] < Len(rows) THEN offset + size[2]
                          ELSE Len(rows))]

\* shove EntryManager.search(obj, size, offset): the lists of ids it can
\* return
search_rows(s, f, obj, size, offset) ==
    LET r == search_result(s, f, obj)
    IN IF r.outcome # "ok" THEN {[outcome |-> r.outcome, rows |-> <<>>]}
       ELSE {limit_offset(rows, size, offset) : rows \in any_order(r.ids)}

\* sqlite EntryManager.search(obj, mode, size, offset): the lists of ids it
\* can return
sqlite_search_rows(s, f, obj, mode, size, offset) ==
    LET r == sqlite_search_result(s, f, obj, mode)
    IN IF r.outcome # "ok" THEN {[outcome |-> r.outcome, rows |-> <<>>]}
       ELSE {limit_offset(rows, size, offset) :
               rows \in order_by_updated(r.ids, s)}

\* sqlite EntryManager.get_entries(size, offset)
get_entries_rows(s, size, offset) ==
    {limit_offset(rows, size, offset) :
       rows \in order_by_updated(SetToBag(DOMAIN s), s)}

----------------------------------------------------------------------------
(* search keys and the HTTP binding's lookup *)

Equal(x) == VOperator("Equal", <<x>>)

Q0 == VDict(<<>>)
Q1 == VDict((<<"a">> :> VInt(1)) @@ (<<"b">> :> VInt(2)))
Q2 == VDict((<<"a">> :> VInt(1)) @@ (<<"b">> :> VInt(3)))
Q3 == VDict(<<"a">> :> VList(<<Equal(VInt(1)), Equal(VInt(2))>>))
Q4 == VDict(<<"a">> :> VList(<<VInt(1), VInt(2)>>))
Q5 == VDict(<<"a">> :> VInt(1))

QueryKeys == {Q0, Q1, Q2, Q3, Q4, Q5}

\* search modes of the sqlite backend: plain, LIKE, and one not supported
Modes == {0, 1, 2}

\* obj with __id__ and __updated__ set when the caller gives them
WithMeta(obj, cid, cupd) ==
    LET o1 == IF cid = None THEN obj ELSE Put(obj, ID_KEY, cid)
    IN IF cupd = None THEN o1 ELSE Put(o1, UPDATED_KEY, cupd)

\* JSONStore.GET of one id: self.em.search(__id__=obj)[0], IndexError
\* answered 404
GET_result(s, f, id) ==
    LET r == search_result(s, f, Put(Q0, ID_KEY, id))
    IN IF r.outcome # "ok" THEN [outcome |-> r.outcome, ret |-> None]
       ELSE IF BagToSet(r.ids) = {} THEN [outcome |-> "404", ret |-> None]
       ELSE [outcome |-> "ok", ret |-> s[id]]

----------------------------------------------------------------------------
(* the state machine *)

EmptyStore == [x \in {} |-> None]

\* the record of a call: its id when it succeeded or was refused for that
\* id (absent, or already there), its body when it succeeded
Call(op, id, body, given, outcome) ==
    [op |-> op,
     id |-> IF outcome \in {"ok", "KeyError", "IntegrityError"} THEN id ELSE None,
     body |-> IF outcome = "ok" THEN body ELSE None,
     given |-> given,
     outcome |-> outcome]

\* worker threads; the first loads the module and constructs the manager
Workers == {"w1", "w2"}
Loader == "w1"

\* a worker that is in no call
Idle == [stage |-> "idle", entry |-> None, key |-> None, ids |-> {},
         update |-> FALSE, given |-> FALSE]

\* self.index (self.location): the key of the manager's handle in a
\* thread's table
INDEX == "index.db"

\* sqlite.connect(...): a new open handle, made by worker w
connect(hs, w) == Append(hs, [owner |-> w, open |-> TRUE])

\* a thread's table of handles, once the attribute exists
Table(t) == <<"table", t>>

\* the state after EntryManager(...) on a database that did not exist: the
\* tables are empty and the constructing thread has made its handle to
\* create them
Init ==
    /\ backend \in {"shove", "sqlite"}
    /\ store = EmptyStore
    /\ flat = EmptyBag
    /\ seq = 0
    /\ generated = {}
    /\ last = Call("init", None, None, FALSE, "ok")
    /\ inflight = [w \in Workers |-> Idle]
    /\ handles = connect(<<>>, Loader)
    /\ conns = [w \in Workers |-> IF w = Loader THEN Table(INDEX :> 1) ELSE None]

\* ids a caller can name: its own tokens and ids the store handed out
Nameable == IF backend = "shove" THEN ClientTokens \cup generated ELSE SqliteIds

(* ---- shove ---- *)

create(body, cid, cupd, uuid, now) ==
    /\ backend = "shove"
    /\ LET r == create_result(store, flat, WithMeta(body, cid, cupd), uuid, now)
       IN /\ BagCardinality(r.flat) <= MaxRows
          /\ store' = r.store
          /\ flat' = r.flat
          /\ generated' = IF cid = None THEN generated \cup {uuid} ELSE generated
          /\ last' = Call("create",
                          IF r.outcome = "ok" THEN Get(r.ret, ID_KEY) ELSE cid,
                          body, cid # None, r.outcome)
    /\ UNCHANGED <<backend, seq>>
    /\ UNCHANGED aside

delete(key) ==
    /\ backend = "shove"
    /\ LET r == delete_result(store, flat, key)
       IN /\ store' = r.store
          /\ flat' = r.flat
          /\ last' = Call("delete", key, None, TRUE, r.outcome)
    /\ UNCHANGED <<backend, seq, generated>>
    /\ UNCHANGED aside

update(body, cid, cupd, now) ==
    /\ backend = "shove"
    /\ LET r == update_result(store, flat, WithMeta(body, cid, cupd), None, now)
       IN /\ BagCardinality(r.flat) <= MaxRows
          /\ store' = r.store
          /\ flat' = r.flat
          /\ last' = Call("update", cid, body, cid # None, r.outcome)
    /\ UNCHANGED <<backend, seq, generated>>
    /\ UNCHANGED aside

search(obj, id_) ==
    /\ backend = "shove"
    /\ LET r == search_result(store, flat, WithMeta(obj, id_, None))
       IN last' = Call("search", None, None, FALSE, r.outcome)
    /\ UNCHANGED <<backend, store, flat, seq, generated>>
    /\ UNCHANGED aside

reindex ==
    /\ backend = "shove"
    /\ flat' = reindex_result(store)
    /\ last' = Call("reindex", None, None, flat # reindex_result(store), "ok")
    /\ UNCHANGED <<backend, store, seq, generated>>
    /\ UNCHANGED aside

GET(id) ==
    /\ backend = "shove"
    /\ last' = Call("GET", None, None, FALSE, GET_result(store, flat, id).outcome)
    /\ UNCHANGED <<backend, store, flat, seq, generated>>
    /\ UNCHANGED aside

(* ---- sqlite ---- *)

create_entry(body, cid, cupd, now) ==
    /\ backend = "sqlite"
    /\ LET r == create_entry_result(store, flat, seq, WithMeta(body, cid, cupd), now)
       IN /\ r.seq <= MaxId
          /\ store' = r.store
          /\ flat' = r.flat
          /\ seq' = r.seq
          /\ generated' = IF cid = None /\ r.outcome = "ok"
                          THEN generated \cup {Get(r.ret, ID_KEY)} ELSE generated
          /\ last' = Call("create",
                          IF r.outcome = "ok" THEN Get(r.ret, ID_KEY) ELSE cid,
                          body, cid # None, r.outcome)
    /\ UNCHANGED backend
    /\ UNCHANGED aside

get_entry(key) ==
    /\ backend = "sqlite"
    /\ last' = Call("GET", None, None, FALSE, get_entry_result(store, key).outcome)
    /\ UNCHANGED <<backend, store, flat, seq, generated>>
    /\ UNCHANGED aside

delete_entry(key) ==
    /\ backend = "sqlite"
    /\ LET r == delete_entry_result(store, flat, seq, key)
       IN /\ store' = r.store
          /\ flat' = r.flat
          /\ last' = Call("delete", key, None, TRUE, r.outcome)
    /\ UNCHANGED <<backend, seq, generated>>
    /\ UNCHANGED aside

update_entry(body, cid, cupd, now) ==
    /\ backend = "sqlite"
    /\ LET r == update_entry_result(store, flat, seq, WithMeta(body, cid, cupd), now)
       IN /\ r.seq <= MaxId
          /\ store' = r.store
          /\ flat' = r.flat
          /\ seq' = r.seq
          /\ last' = Call("update", cid, body, cid # None, r.outcome)
    /\ UNCHANGED <<backend, generated>>
    /\ UNCHANGED aside

sqlite_search(obj, mode) ==
    /\ backend = "sqlite"
    /\ LET r == sqlite_search_result(store, flat, obj, mode)
       IN last' = Call("search", None, None, FALSE, r.outcome)
    /\ UNCHANGED <<backend, store, flat, seq, generated>>
    /\ UNCHANGED aside

\* size and offset as callers pass them
Sizes == {None, VInt(1), VInt(2)}
Offsets == {0, 1, 2}

get_entries(size, offset) ==
    /\ backend = "sqlite"
    /\ \E r \in get_entries_rows(store, size, offset) :
          last' = Call("get_entries", None, None, FALSE, r.outcome)
    /\ UNCHANGED <<backend, store, flat, seq, generated>>
    /\ UNCHANGED aside

\* what a caller passes as body and __updated__; the malformed timestamp
\* is rejected whatever the body is, so one body carries it
Supplied ==
    (Bodies \X {None, GoodUpdated}) \cup {<<D1, BadUpdated>>}

\* str(uuid4()): a token no earlier call returned
FreshUuid ==
    IF Uuids \ generated = {} THEN {}
    ELSE {CHOOSE u \in Uuids \ generated : TRUE}

Next ==
    \/ \E in \in Supplied, cid \in ClientTokens, now \in Datetimes :
          create(in[1], cid, in[2], None, now)
    \/ \E in \in Supplied, uuid \in FreshUuid, now \in Datetimes :
          create(in[1], None, in[2], uuid, now)
    \/ \E key \in Ids : delete(key)
    \/ \E in \in Supplied, cid \in Nameable \cup {None}, now \in Datetimes :
          update(in[1], cid, in[2], now)
    \/ \E obj \in QueryKeys, id_ \in Ids \cup {None} : search(obj, id_)
    \/ reindex
    \/ \E id \in Ids : GET(id)
    \/ \E in \in Supplied, cid \in Nameable \cup {None}, now \in Datetimes :
          create_entry(in[1], cid, in[2], now)
    \/ \E key \in Ids : get_entry(key)
    \/ \E key \in Ids : delete_entry(key)
    \/ \E in \in Supplied, cid \in Nameable \cup {None}, now \in Datetimes :
          update_entry(in[1], cid, in[2], now)
    \/ \E obj \in QueryKeys, mode \in Modes : sqlite_search(obj, mode)
    \/ \E size \in Sizes, offset \in Offsets : get_entries(size, offset)

Spec == Init /\ [][Next]_vars

----------------------------------------------------------------------------
(* the shove backend step by step: the store write and the index write of *)
(* a call are separate steps, so the calls of two workers interleave and a *)
(* call can end between its writes                                         *)

\* worker w is at `stage` of a call
At(w, stage, entry, key, ids, in_update, given) ==
    [inflight EXCEPT ![w] = [stage |-> stage, entry |-> entry, key |-> key,
                             ids |-> ids, update |-> in_update, given |-> given]]

\* a step inside a call
StepOf(op) == Call(op, None, None, FALSE, "step")

\* create, up to self.store[id_] = entry
create_store(w, body, cid, cupd, uuid, now) ==
    /\ backend = "shove"
    /\ inflight[w] = Idle
    /\ LET r == create_result(store, flat, WithMeta(body, cid, cupd), uuid, now)
       IN /\ BagCardinality(r.flat) <= MaxRows
          /\ store' = r.store
          /\ IF r.outcome = "ok"
             THEN /\ inflight' = At(w, "create_index", r.ret, None, {}, FALSE,
                                    cid # None)
                  /\ last' = StepOf("create")
             ELSE /\ inflight' = inflight
                  /\ last' = Call("create", cid, body, cid # None, r.outcome)
    /\ generated' = IF cid = None THEN generated \cup {uuid} ELSE generated
    /\ UNCHANGED <<backend, flat, seq, conns, handles>>

\* create, from self.index_entry(entry) to the return
create_index(w) ==
    /\ backend = "shove"
    /\ inflight[w].stage = "create_index"
    /\ flat' = index_entry(flat, inflight[w].entry)
    /\ BagCardinality(flat') <= MaxRows
    /\ inflight' = [inflight EXCEPT ![w] = Idle]
    /\ last' = Call(IF inflight[w].update THEN "update" ELSE "create",
                    Get(inflight[w].entry, ID_KEY),
                    Pop(Pop(inflight[w].entry, ID_KEY), UPDATED_KEY),
                    inflight[w].given, "ok")
    /\ UNCHANGED <<backend, store, seq, generated, conns, handles>>

\* delete, up to del self.store[key]
delete_store(w, key) ==
    /\ backend = "shove"
    /\ inflight[w] = Idle
    /\ LET r == delete_result(store, flat, key)
       IN /\ store' = r.store
          /\ IF r.outcome = "ok"
             THEN /\ inflight' = At(w, "delete_index", None, key, {}, FALSE, TRUE)
                  /\ last' = StepOf("delete")
             ELSE /\ inflight' = inflight
                  /\ last' = Call("delete", key, None, TRUE, r.outcome)
    /\ UNCHANGED <<backend, flat, seq, generated, conns, handles>>

\* delete, from DELETE FROM flat WHERE id=? to the return; inside an update
\* the create follows
delete_index(w) ==
    /\ backend = "shove"
    /\ inflight[w].stage = "delete_index"
    /\ flat' = delete_rows(flat, inflight[w].key)
    /\ IF inflight[w].update
       THEN /\ inflight' = [inflight EXCEPT ![w].stage = "create_store"]
            /\ last' = StepOf("update")
       ELSE /\ inflight' = [inflight EXCEPT ![w] = Idle]
            /\ last' = Call("delete", inflight[w].key, None, TRUE, "ok")
    /\ UNCHANGED <<backend, store, seq, generated, conns, handles>>

\* update, up to the del self.store[key] of its delete
update_store(w, body, cid, cupd) ==
    /\ backend = "shove"
    /\ inflight[w] = Idle
    /\ LET entry0 == WithMeta(body, cid, cupd)
           r == update_result(store, flat, entry0, None, None)
       IN IF r.outcome = "KeyError"
          THEN /\ UNCHANGED <<store, inflight>>
               /\ last' = Call("update", cid, body, cid # None, r.outcome)
          ELSE /\ store' = Remove(store, Get(entry0, ID_KEY))
               /\ inflight' = At(w, "delete_index", entry0, Get(entry0, ID_KEY),
                                 {}, TRUE, TRUE)
               /\ last' = StepOf("update")
    /\ UNCHANGED <<backend, flat, seq, generated, conns, handles>>

\* update, the create after its delete, up to self.store[id_] = entry
update_create_store(w, now) ==
    /\ backend = "shove"
    /\ inflight[w].stage = "create_store"
    /\ LET r == create_result(store, flat, inflight[w].entry, None, now)
       IN /\ BagCardinality(r.flat) <= MaxRows
          /\ store' = r.store
          /\ IF r.outcome = "ok"
             THEN /\ inflight' = At(w, "create_index", r.ret, None, {}, TRUE, TRUE)
                  /\ last' = StepOf("update")
             ELSE /\ inflight' = [inflight EXCEPT ![w] = Idle]
                  /\ last' = Call("update", inflight[w].key, None, TRUE, r.outcome)
    /\ UNCHANGED <<backend, flat, seq, generated, conns, handles>>

\* search, up to curs = self.conn.execute(query, tuple(params))
search_query(w, obj, id_) ==
    /\ backend = "shove"
    /\ inflight[w] = Idle
    /\ inflight' = At(w, "lookup", None, None,
                      select_ids(flat, WithMeta(obj, id_, None)), FALSE, FALSE)
    /\ last' = StepOf("search")
    /\ UNCHANGED <<backend, store, flat, seq, generated, conns, handles>>

\* search, return [self.store[row[0]] for row in curs]
search_lookup(w) ==
    /\ backend = "shove"
    /\ inflight[w].stage = "lookup"
    /\ inflight' = [inflight EXCEPT ![w] = Idle]
    /\ last' = Call("search", None, None, FALSE,
                    IF inflight[w].ids \subseteq DOMAIN store THEN "ok"
                    ELSE "KeyError")
    /\ UNCHANGED <<backend, store, flat, seq, generated, conns, handles>>

\* a call ends between its steps: its thread dies, or the statement on the
\* index connection raises
crash(w) ==
    /\ backend = "shove"
    /\ inflight[w] # Idle
    /\ inflight' = [inflight EXCEPT ![w] = Idle]
    /\ last' = Call("crash", None, None, FALSE, "crash")
    /\ UNCHANGED <<backend, store, flat, seq, generated, conns, handles>>

\* bodies and search keys of the step-wise specification, and the number
\* of ids it lets the store generate
StepBodies == {D1, D3}
StepKeys == {Q0, Q5}
MaxStepUuids == 1

NextSteps ==
    \/ \E w \in Workers, body \in StepBodies, cid \in ClientTokens,
          now \in Datetimes : create_store(w, body, cid, None, None, now)
    \/ \E w \in Workers, body \in StepBodies, uuid \in FreshUuid,
          now \in Datetimes :
          /\ Cardinality(generated) < MaxStepUuids
          /\ create_store(w, body, None, None, uuid, now)
    \/ \E w \in Workers : create_index(w)
    \/ \E w \in Workers, key \in Nameable : delete_store(w, key)
    \/ \E w \in Workers : delete_index(w)
    \/ \E w \in Workers, body \in StepBodies, cid \in Nameable :
          update_store(w, body, cid, None)
    \/ \E w \in Workers, now \in Datetimes : update_create_store(w, now)
    \/ \E w \in Workers, obj \in StepKeys : search_query(w, obj, None)
    \/ \E w \in Workers : search_lookup(w)
    \/ \E w \in Workers : crash(w)
    \/ reindex

InitSteps == Init /\ backend = "shove"

SpecSteps == InitSteps /\ [][NextSteps]_vars

----------------------------------------------------------------------------
(* the connection handles: LOCAL = threading.local() holds, per thread, a  *)
(* table from index path to handle (LOCAL.conns in the shove backend,      *)
(* LOCAL.connections in the sqlite backend)                                *)

\* cap on the handles made in a behaviour
MaxHandles == 4

\* a LOCAL that is an ordinary module-level object: one namespace for all
\* threads
local_shared(w) == Loader

\* threading.local(): the namespace thread w reads and writes
local_of(w) == w

ConnOutcome(o, cs, hs, h) == [outcome |-> o, conns |-> cs, handles |-> hs, ret |-> h]

\* the property EntryManager.conn read by worker w, on tables cs and
\* handles hs.  shove: LOCAL.conns is made on first use; sqlite:
\* LOCAL.connections is made only when the module is loaded, in the thread
\* that loads it
conn_result(cs, hs, bk, w) ==
    LET t == cs[local_of(w)]
        t1 == IF t = None /\ bk = "shove" THEN Table(EmptyStore) ELSE t
    IN IF t1 = None
       THEN ConnOutcome("AttributeError", cs, hs, 0)
       ELSE IF INDEX \in DOMAIN t1[2]
       THEN ConnOutcome("ok", [cs EXCEPT ![local_of(w)] = t1], hs, t1[2][INDEX])
       ELSE LET hs2 == connect(hs, w)
            IN ConnOutcome("ok",
                           [cs EXCEPT ![local_of(w)] =
                                Table(Assign(t1[2], INDEX, Len(hs2)))],
                           hs2, Len(hs2))

\* EntryManager.close called by worker w: self.conn.close(), then
\* del LOCAL.conns[self.index]
close_result(cs, hs, bk, w) ==
    LET c == conn_result(cs, hs, bk, w)
    IN IF c.outcome # "ok" THEN c
       ELSE ConnOutcome("ok",
                        [c.conns EXCEPT ![local_of(w)] = Table(Remove(@[2], INDEX))],
                        [c.handles EXCEPT ![c.ret].open = FALSE],
                        c.ret)

\* the record of a use of the connection: who asked, which handle
ConnCall(op, w, h, outcome) ==
    [op |-> op, worker |-> w, handle |-> h, outcome |-> outcome]

conn(w) ==
    /\ LET r == conn_result(conns, handles, backend, w)
       IN /\ Len(r.handles) <= MaxHandles
          /\ conns' = r.conns
          /\ handles' = r.handles
          /\ last' = ConnCall("conn", w, r.ret, r.outcome)
    /\ UNCHANGED <<backend, store, flat, seq, generated, inflight>>

close(w) ==
    /\ LET r == close_result(conns, handles, backend, w)
       IN /\ Len(r.handles) <= MaxHandles
          /\ conns' = r.conns
          /\ handles' = r.handles
          /\ last' = ConnCall("close", w, r.ret, r.outcome)
    /\ UNCHANGED <<backend, store, flat, seq, generated, inflight>>

NextConn ==
    \/ \E w \in Workers : conn(w)
    \/ \E w \in Workers : close(w)

SpecConn == Init /\ [][NextConn]_vars

----------------------------------------------------------------------------
(* what the claims speak of *)

\* the entry a reader gets for a stored id
Entry(id) ==
    IF backend = "shove" THEN store[id] ELSE get_entry_result(store, id).ret

\* the body of an entry: the entry without its metadata
Body(entry) == Pop(Pop(entry, ID_KEY), UPDATED_KEY)

\* the (path, leaf) pairs of a value, as the running backend flattens it
Pairs(obj) ==
    IF backend = "shove" THEN flatten(obj, <<>>) ELSE sqlite_flatten(obj, <<>>)

\* every path of obj occurs once
PathsOnce(obj) ==
    LET pairs == Pairs(obj)
    IN /\ \A p \in BagToSet(pairs) : pairs[p] = 1
       /\ \A p, q \in BagToSet(pairs) : p[1] = q[1] => p = q

\* the entry has, for every pair of the key, a leaf at the pair's path that
\* satisfies the pair's predicate
DocSatisfies(entry, key) ==
    \A p \in BagToSet(Pairs(key)) :
        \E q \in BagToSet(Pairs(entry)) :
            q[1] = p[1] /\ OperatorHolds(as_operator(p[2]), q[2])

\* the outcome and the ids of search(key), restricted to id_ when it is not
\* None, on the running backend
Search(key, id_) ==
    IF backend = "shove"
    THEN search_result(store, flat, WithMeta(key, id_, None))
    ELSE sqlite_search_result(store, flat, WithMeta(key, id_, None), 0)

\* the outcome of reading one id
Read(id) ==
    IF backend = "shove" THEN GET_result(store, flat, id)
    ELSE get_entry_result(store, id)

NotFound == {"404", "KeyError", "TypeError"}

\* keys whose paths occur once
OnceKeys == {Q0, Q1, Q2, Q5}

\* the number of index rows of id at path a whose leaf is 1 or 2
MatchCount(id) ==
    LET rows == RowsFor(flat, id)
        hits == {r \in DOMAIN rows : r[2] = <<"a">> /\ r[3] \in {VInt(1), VInt(2)}}
    IN BagCardinality([r \in hits |-> rows[r]])

----------------------------------------------------------------------------
(* C1 *)

\* C1: after any sequence of completed create, update, delete and reindex
\* calls of the shove EntryManager, the index rows of every stored id are
\* exactly the flattening of its stored entry without the __id__ path, and
\* the index has no rows for an id that is not stored.
C1_IndexMatchesStore ==
    backend = "shove" =>
        \A id \in ShoveIds :
            RowsFor(flat, id) =
                IF id \in DOMAIN store THEN index_rows(store[id]) ELSE EmptyBag

----------------------------------------------------------------------------
(* C2 *)

\* C2: a create with a caller-supplied id that is already stored fails with
\* a conflict error and leaves the stored entry and its index rows as they
\* were.
C2_CreateConflict ==
    [][(/\ last'.op = "create"
        /\ last'.given
        /\ last'.id \in DOMAIN store)
       => (/\ last'.outcome = "IntegrityError"
           /\ store' = store
           /\ flat' = flat)]_vars

----------------------------------------------------------------------------
(* C3 *)

\* C3: a completed delete leaves its id absent, and for an absent id no
\* search (the empty key included) returns it and reading it reports
\* not found.
C3_DeleteCompleteness ==
    /\ (last.op = "delete" /\ last.outcome = "ok") => last.id \notin DOMAIN store
    /\ \A id \in Ids \ DOMAIN store :
          /\ Read(id).outcome \in NotFound
          /\ \A key \in QueryKeys, id_ \in Ids \cup {None} :
                /\ Search(key, id_).outcome = "ok"
                /\ ~BagIn(id, Search(key, id_).ids)
          /\ backend = "sqlite" =>
                \A key \in QueryKeys :
                    ~BagIn(id, sqlite_search_result(store, flat, key, 1).ids)

\* C3's case: a delete has completed while another entry stays stored and
\* is still found by the empty key
C3_Witness ==
    /\ last.op = "delete" /\ last.outcome = "ok"
    /\ store # EmptyStore
    /\ BagToSet(Search(Q0, None).ids) = DOMAIN store

----------------------------------------------------------------------------
(* C4 *)

\* C4: an update whose id is not stored reports not found and creates
\* nothing: the store and the index stay as they were.
C4_UpdateAbsent ==
    [][(/\ last'.op = "update"
        /\ last'.given
        /\ last'.id # None
        /\ last'.id \notin DOMAIN store)
       => (/\ last'.outcome \in NotFound
           /\ store' = store
           /\ flat' = flat)]_vars

----------------------------------------------------------------------------
(* C5 *)

----------------------------------------------------------------------------
(* C6 *)

\* C6: an id the store generates for a create without a supplied id is not
\* an id stored at that moment and not an id generated before.
C6_FreshIds ==
    [][(/\ last'.op = "create"
        /\ ~last'.given
        /\ last'.outcome = "ok")
       => (/\ last'.id \notin DOMAIN store
           /\ last'.id \notin generated
           /\ last'.id \in generated')]_vars

\* C6's case: after a generated id was deleted, the next generated id is a
\* new one
C6_Witness ==
    /\ backend = "sqlite"
    /\ last.op = "create" /\ ~last.given /\ last.outcome = "ok"
    /\ generated = {VInt(1), VInt(2)}
    /\ DOMAIN store = {VInt(2)}

----------------------------------------------------------------------------
(* C7 *)

\* C7: AND narrowing: when every path occurs at most once in each stored
\* document and once in the key, search(key) returns exactly the stored
\* entries whose leaf at every queried path satisfies that path's predicate.
C7_AndNarrowing ==
    (\A id \in DOMAIN store : PathsOnce(Entry(id))) =>
        \A key \in OnceKeys :
            /\ Search(key, None).outcome = "ok"
            /\ BagToSet(Search(key, None).ids) =
                  {id \in DOMAIN store : DocSatisfies(Entry(id), key)}

----------------------------------------------------------------------------
(* C8 *)

----------------------------------------------------------------------------
(* C9 *)

\* C9: search with the empty key and no size or offset returns every entry
\* in the store, and only those.
C9_EmptyKeyAll ==
    /\ Search(Q0, None).outcome = "ok"
    /\ BagToSet(Search(Q0, None).ids) = DOMAIN store

\* C9's case: two entries are stored and the empty key was searched
C9_Witness ==
    /\ Cardinality(DOMAIN store) = 2
    /\ last.op = "search" /\ last.outcome = "ok"
    /\ BagToSet(Search(Q0, None).ids) = DOMAIN store

----------------------------------------------------------------------------
(* C10 *)

\* C10: a key with __id__ = X returns entry X when X is stored and satisfies
\* the rest of the key, nothing otherwise, and never another entry.
C10_IdRestricts ==
    \A X \in Ids, rest \in OnceKeys :
        /\ Search(rest, X).outcome = "ok"
        /\ BagToSet(Search(rest, X).ids) =
              IF X \in DOMAIN store /\ DocSatisfies(Body(Entry(X)), rest)
              THEN {X} ELSE {}

----------------------------------------------------------------------------
(* C11 *)

\* C11: search results are deduplicated: for every query key, the empty key
\* included, no entry id appears more than once in the result of a search.
C11_Deduplicated ==
    \A key \in QueryKeys, id \in Ids :
        CopiesIn(id, Search(key, None).ids) <= 1

----------------------------------------------------------------------------
(* C12 *)

\* the lists of ids search(key, size, offset) can return on the running
\* backend
SearchRows(key, size, offset) ==
    IF backend = "shove" THEN search_rows(store, flat, key, size, offset)
    ELSE sqlite_search_rows(store, flat, key, 0, size, offset)

\* the instant of the updated timestamp of a stored id
Updated(id) ==
    IF backend = "shove" THEN instant(Get(store[id], UPDATED_KEY))
    ELSE instant(store[id].updated)

\* in a list of ids no entry comes before one with a later timestamp
Descending(rows) ==
    \A i, j \in DOMAIN rows : i < j => ~Later(Updated(rows[j]), Updated(rows[i]))

\* C12: search returns its results ordered by the entries' updated
\* timestamp, descending: of two entries in a result the one with the later
\* timestamp comes first (and so does get_entries of the sqlite backend).
C12_UpdatedDescending ==
    /\ \A key \in QueryKeys :
          \A r \in SearchRows(key, None, 0) : r.outcome = "ok" /\ Descending(r.rows)
    /\ backend = "sqlite" =>
          \A r \in get_entries_rows(store, None, 0) : Descending(r.rows)

----------------------------------------------------------------------------
(* C13 *)

RECURSIVE Concat(_, _)
\* pages[0] \o ... \o pages[n]
Concat(pages, n) ==
    IF n = 0 THEN pages[0] ELSE Concat(pages, n - 1) \o pages[n]

\* the ids of a list
Range(rows) == {rows[i] : i \in DOMAIN rows}

\* the pages of size `size` of a full result, the page queries returning
\* the rows in the order of the full result (the data set does not change)
PagesOf(full, size) ==
    [k \in 0..Len(full) |-> limit_offset(full, size, k * size[2]).rows]

\* C13: pagination: on an unchanging data set the pages search(key, size=s,
\* offset=0), search(key, size=s, offset=s), ... are disjoint and their
\* concatenation is the full ordered result of search(key).
C13_Pagination ==
    \A key \in QueryKeys, size \in Sizes \ {None} :
        \A full \in SearchRows(key, None, 0) :
            LET pages == PagesOf(full.rows, size)
            IN /\ Concat(pages, Len(full.rows)) = full.rows
               /\ \A k, m \in DOMAIN pages :
                     k # m => Range(pages[k]) \cap Range(pages[m]) = {}

----------------------------------------------------------------------------
(* C14 *)

\* C14: search tolerates a store lookup miss: when an id its index query
\* found has no entry in the store by the time it is looked up, the search
\* still returns (without that id) instead of failing.
C14_LookupMiss ==
    [][\A w \in Workers :
          (inflight[w].stage = "lookup" /\ inflight'[w] = Idle
           /\ last'.op = "search")
          => last'.outcome = "ok"]_vars

----------------------------------------------------------------------------
(* C15 *)

\* the index f holds, for every id, exactly the rows of the entry store s
\* holds for it
IndexExact(s, f) ==
    \A id \in ShoveIds :
        RowsFor(f, id) = IF id \in DOMAIN s THEN index_rows(s[id]) ELSE EmptyBag

\* C15: whatever the index held before (stale rows, missing rows, rows of
\* deleted ids left by calls that ended between their two writes), when
\* reindex() has completed the index rows are exactly the flattening of
\* every entry in the store.
C15_ReindexRecovers ==
    last.op = "reindex" => IndexExact(store, flat)

\* C15's case: a reindex has completed on an index that had diverged from a
\* store that holds an entry, one call having ended between its writes
C15_Witness ==
    /\ last.op = "reindex" /\ last.given
    /\ store # EmptyStore
    /\ IndexExact(store, flat)
    /\ \A w \in Workers : inflight[w] = Idle

----------------------------------------------------------------------------
(* C16 *)

\* C16: reindex idempotence: with the store unchanged, every search returns
\* the same result before reindex(), after it, and after a second reindex()
\* following it.
C16_ReindexIdempotent ==
    [][last'.op = "reindex" =>
          /\ store' = store
          /\ \A key \in QueryKeys, id_ \in ShoveIds \cup {None} :
                /\ search_result(store', flat', WithMeta(key, id_, None))
                      = search_result(store, flat, WithMeta(key, id_, None))
                /\ search_result(store', reindex_result(store'),
                                 WithMeta(key, id_, None))
                      = search_result(store', flat', WithMeta(key, id_, None))]_vars

----------------------------------------------------------------------------
(* C17 *)

\* every handle in a worker's table was made by that worker
OwnHandles ==
    \A w \in Workers :
        (conns[w] # None /\ INDEX \in DOMAIN conns[w][2])
        => handles[conns[w][2][INDEX]].owner = w

\* C17: each worker owns its index handle: the handle the connection lookup
\* returns to worker W is one W made, no handle is in the tables of two
\* workers, and close() called by W changes no handle but W's.
C17_OwnHandle ==
    [][/\ OwnHandles'
       /\ (last'.op \in {"conn", "close"} /\ last'.outcome = "ok")
          => handles'[last'.handle].owner = last'.worker
       /\ last'.op = "close"
          => \A h \in DOMAIN handles :
                handles'[h] # handles[h] => handles[h].owner = last'.worker]_vars

\* C17's case: both workers hold an open handle of their own and one of
\* them has closed an earlier handle
C17_Witness ==
    /\ backend = "shove"
    /\ \A w \in Workers :
          /\ conns[w] # None /\ INDEX \in DOMAIN conns[w][2]
          /\ handles[conns[w][2][INDEX]].open
    /\ conns["w1"][2][INDEX] # conns["w2"][2][INDEX]
    /\ \E h \in DOMAIN handles : ~handles[h].open
    /\ last.op = "conn" /\ last.worker = "w2"

----------------------------------------------------------------------------
(* C18 *)

\* deepest nesting of the flattened documents
MaxDepth == 2

\* mapping keys: plain ones, one holding the separator and one holding the
\* text escape() writes for the separator
Keys == {<<"a">>, <<"b">>, <<"a", ".", "b">>, <<"a", "%", "2", "E", "b">>}

\* the sequences of keys leading to a leaf
KeyPaths == UNION {[1..n -> Keys] : n \in 1..MaxDepth}

RECURSIVE Nested(_, _)
\* the document with one leaf, reached through keys
Nested(keys, leaf) ==
    IF keys = <<>> THEN leaf
    ELSE VDict(Head(keys) :> Nested(Tail(keys), leaf))

\* the one path flatten yields for a document with one leaf
PathOf(doc) == (CHOOSE p \in BagToSet(Pairs(doc)) : TRUE)[1]

\* worker w flattens a document, as index_entry and search do
flatten_doc(w, keys) ==
    /\ LET doc == Nested(keys, VInt(1))
       IN inflight' = At(w, "flattened", doc, VStr(PathOf(doc)), {}, FALSE, FALSE)
    /\ last' = Call("flatten", None, None, FALSE, "ok")
    /\ UNCHANGED <<backend, store, flat, seq, generated, conns, handles>>

NextFlatten == \E w \in Workers, keys \in KeyPaths : flatten_doc(w, keys)

SpecFlatten == Init /\ [][NextFlatten]_vars

RECURSIVE KeysTo(_)
\* the mapping keys through which the leaf of a one-leaf document is reached
KeysTo(doc) ==
    IF IsDict(doc)
    THEN LET k == CHOOSE x \in DOMAIN doc[2] : TRUE
         IN <<k>> \o KeysTo(doc[2][k])
    ELSE <<>>

\* C18: two flattened documents whose leaves are reached through different
\* sequences of mapping keys never have the same path string, also when
\* keys hold the separator or the escape sequence.
C18_Unambiguous ==
    \A w, v \in Workers :
        (/\ inflight[w].stage = "flattened"
         /\ inflight[v].stage = "flattened"
         /\ KeysTo(inflight[w].entry) # KeysTo(inflight[v].entry))
        => inflight[w].key # inflight[v].key

----------------------------------------------------------------------------
(* C19 *)

\* the search modes the sqlite backend has no branch for
Unsupported == Modes \ {0, 1}

\* C19: a search that names an unsupported search mode is rejected with an
\* error for every query key, the empty key included.
C19_UnsupportedRejected ==
    backend = "sqlite"
    => \A key \in QueryKeys, mode \in Unsupported :
          sqlite_search_result(store, flat, key, mode).outcome = "Exception"

----------------------------------------------------------------------------
(* C20 *)

\* the entry has, for every path of the key, a leaf at that path that
\* satisfies one of the predicates the key has for the path
GroupsSatisfied(entry, key) ==
    \A path \in {p[1] : p \in BagToSet(Pairs(key))} :
        \E p \in BagToSet(Pairs(key)), q \in BagToSet(Pairs(entry)) :
            /\ p[1] = path
            /\ q[1] = path
            /\ OperatorHolds(as_operator(p[2]), q[2])

\* C20: for arbitrary stored documents, also those whose lists flatten to
\* repeated paths, search(key) returns an entry only if, for every path of
\* the key, the entry has a leaf at that path satisfying one of the
\* predicates of that path.
C20_Sound ==
    backend = "shove"
    => \A key \in QueryKeys :
          \A id \in BagToSet(Search(key, None).ids) :
              id \in DOMAIN store /\ GroupsSatisfied(Entry(id), key)

----------------------------------------------------------------------------
(* C21 *)

\* the number of index rows of id
RowCount(f, id) == BagCardinality(RowsFor(f, id))

\* C21: in every execution of create the store write precedes the index
\* insert: the step that takes a create to the point between its writes
\* has stored the entry under its id and has inserted no row of that id,
\* and rows of an id are inserted only by the last step of a create that
\* is past its store write (or by reindex).
C21_StoreFirst ==
    [][/\ \A w \in Workers :
            (inflight[w].stage # "create_index"
             /\ inflight'[w].stage = "create_index")
            => LET entry == inflight'[w].entry
                   id == Get(entry, ID_KEY)
               IN /\ id \in DOMAIN store'
                  /\ store'[id] = entry
                  /\ flat' = flat
       /\ \A id \in ShoveIds :
            (RowCount(flat', id) > RowCount(flat, id) /\ last'.op # "reindex")
            => \E w \in Workers :
                  /\ inflight[w].stage = "create_index"
                  /\ Get(inflight[w].entry, ID_KEY) = id
                  /\ inflight'[w] = Idle]_vars

\* C21's case: a create is between its store write and its index insert,
\* its entry is stored and has no rows, and the other worker's search has
\* run its query on that index
C21_Witness ==
    \E w, v \in Workers :
        /\ inflight[w].stage = "create_index" /\ ~inflight[w].update
        /\ Get(inflight[w].entry, ID_KEY) \in DOMAIN store
        /\ RowCount(flat, Get(inflight[w].entry, ID_KEY)) = 0
        /\ inflight[v].stage = "lookup"
        /\ inflight[v].ids = {}

----------------------------------------------------------------------------
(* C22 *)

\* worker w has a handle in its table
Holds(w) == conns[w] # None /\ INDEX \in DOMAIN conns[w][2]

\* C22: for every worker, the loading thread or not, a use of the index
\* connection succeeds, making a handle when the worker has none, and
\* returns the handle the worker already has until the worker calls close().
C22_LazyHandle ==
    [][last'.op = "conn"
       => /\ last'.outcome = "ok"
          /\ Holds(last'.worker)
             => /\ last'.handle = conns[last'.worker][2][INDEX]
                /\ handles' = handles]_vars

----------------------------------------------------------------------------
(* C23 *)

\* entries are created one call at a time under ids the store does not
\* hold; updates of the stored ids run step by step in both workers
NextUpdates ==
    \/ \E body \in StepBodies, cid \in ClientTokens, now \in Datetimes :
          /\ \A w \in Workers : inflight[w] = Idle
          /\ cid \notin DOMAIN store
          /\ create(body, cid, None, None, now)
    \/ \E w \in Workers, body \in StepBodies, cid \in Nameable :
          update_store(w, body, cid, None)
    \/ \E w \in Workers : delete_index(w)
    \/ \E w \in Workers, now \in Datetimes : update_create_store(w, now)
    \/ \E w \in Workers : create_index(w)

SpecUpdates == InitSteps /\ [][NextUpdates]_vars

\* C23: when two workers update the same stored id at the same time, then
\* under every interleaving of their store and index steps the state
\* reached once both calls have returned has index rows that are exactly
\* the flattening of the entry stored under the id: no rows of the losing
\* body, no row twice.
C23_UpdateRace ==
    (\A w \in Workers : inflight[w] = Idle) => IndexExact(store, flat)

----------------------------------------------------------------------------
(* C24 *)

\* '"%s"' % sha(dumps(old, cls=DatetimeEncoder)).hexdigest(): the digest of
\* the entry's JSON text, in which DatetimeEncoder writes a datetime as its
\* ISO string; the digests of different texts are taken to differ
etag(entry) ==
    <<"etag", VDict([k \in DOMAIN entry[2] |-> datetime_to_iso(entry[2][k])])>>

\* the If-Match values of the requests: the etags a GET can have answered
IfMatches ==
    {etag(create_result(EmptyStore, EmptyBag, WithMeta(body, cid, None),
                        None, now).ret) :
        body \in StepBodies, cid \in ClientTokens, now \in Datetimes}

\* JSONStore.PUT up to the conditional test; cid is the __id__ of the
\* request body (None when it has none), the request has no
\* If-Unmodified-Since header
PUT_check(w, body, cid, url_id, if_match) ==
    /\ backend = "shove"
    /\ inflight[w] = Idle
    /\ LET entry == Put(body, ID_KEY, IF cid = None THEN url_id ELSE cid)
           r == search_result(store, flat, Put(Q0, ID_KEY, url_id))
           answer == IF cid # None /\ cid # url_id THEN "409"
                     ELSE IF r.outcome # "ok" THEN r.outcome
                     ELSE IF BagToSet(r.ids) = {} THEN "IndexError"
                     ELSE IF etag(store[url_id]) # if_match THEN "412"
                     ELSE "step"
       IN IF answer = "step"
          THEN /\ inflight' = At(w, "put_update", entry, if_match, {}, TRUE, TRUE)
               /\ last' = StepOf("PUT")
          ELSE /\ inflight' = inflight
               /\ last' = Call("PUT", url_id, None, TRUE, answer)
    /\ UNCHANGED <<backend, store, flat, seq, generated, conns, handles>>

\* JSONStore.PUT from result = self.em.update(entry) to the response
PUT_update(w, now) ==
    /\ backend = "shove"
    /\ inflight[w].stage = "put_update"
    /\ LET r == update_result(store, flat, inflight[w].entry, None, now)
       IN /\ BagCardinality(r.flat) <= MaxRows
          /\ store' = r.store
          /\ flat' = r.flat
          /\ last' = Call("PUT", Get(inflight[w].entry, ID_KEY),
                          Pop(inflight[w].entry, ID_KEY), TRUE, r.outcome)
    /\ inflight' = [inflight EXCEPT ![w] = Idle]
    /\ UNCHANGED <<backend, seq, generated, conns, handles>>

\* the ids a request body can carry: none, the id of the URL, another one
BodyIds == {None} \cup ClientTokens \cup Uuids

NextPut ==
    \/ \E body \in StepBodies, cid \in ClientTokens, now \in Datetimes :
          /\ \A w \in Workers : inflight[w] = Idle
          /\ cid \notin DOMAIN store
          /\ create(body, cid, None, None, now)
    \/ \E w \in Workers, body \in StepBodies, cid \in BodyIds,
          url_id \in ClientTokens, if_match \in IfMatches :
          PUT_check(w, body, cid, url_id, if_match)
    \/ \E w \in Workers, now \in Datetimes : PUT_update(w, now)
    \/ \E key \in Nameable : delete(key)

SpecPut == InitSteps /\ [][NextPut]_vars

\* C24: a conditional PUT applies its update only against the entry state
\* whose etag the request carries in If-Match: of two PUT requests for one
\* id with the same etag that are processed at the same time, the one that
\* comes second finds the entry changed and is not applied.
C24_NoLostUpdate ==
    [][\A w \in Workers :
          (inflight[w].stage = "put_update" /\ inflight'[w] = Idle
           /\ last'.outcome = "ok")
          => LET id == Get(inflight[w].entry, ID_KEY)
             IN id \in DOMAIN store /\ etag(store[id]) = inflight[w].key]_vars

====
